---- MODULE Spec2Model ----
(***************************************************************************)
(* Filter / render / export pipeline of assets/script.js (Broome County    *)
(* community-resource map).  The file holds four revisions of the script;  *)
(* `rev` says which one is loaded in the page.                             *)
(*                                                                         *)
(* Text is a sequence of one-character strings, so that trim, lower-case,  *)
(* split, substring search and number parsing are computed as JavaScript   *)
(* computes them.  Numbers are the integers; a coordinate is written in    *)
(* units of 1e-4 degree (42.1 is 421000).                                  *)
(***************************************************************************)
EXTENDS Integers, Sequences, FiniteSets, TLC

----------------------------------------------------------------------------
(* Bounds of the model *)

\* most rows in a loaded dataset
MaxRows == 2
\* most distinct types in a dataset loaded to build the type filter
MaxTypes == 11
\* milliseconds that pass in one step of the clock
TickMs == 150

----------------------------------------------------------------------------
(* JavaScript values and text *)

Undefined == [k |-> "undefined", n |-> 0, s |-> <<>>]
NaN == [k |-> "NaN", n |-> 0, s |-> <<>>]
Infinity == [k |-> "Infinity", n |-> 0, s |-> <<>>]
Num(i) == [k |-> "number", n |-> i, s |-> <<>>]
Str(t) == [k |-> "string", n |-> 0, s |-> t]

Digits == <<"0", "1", "2", "3", "4", "5", "6", "7", "8", "9">>
UpperCase == <<"A", "B", "C", "D", "E", "F", "G", "H", "I", "J", "K", "L", "M",
               "N", "O", "P", "Q", "R", "S", "T", "U", "V", "W", "X", "Y", "Z">>
LowerCase == <<"a", "b", "c", "d", "e", "f", "g", "h", "i", "j", "k", "l", "m",
               "n", "o", "p", "q", "r", "s", "t", "u", "v", "w", "x", "y", "z">>

IsDigit(c) == \E i \in 1..10 : Digits[i] = c
DigitValue(c) == (CHOOSE i \in 1..10 : Digits[i] = c) - 1

\* String.prototype.toLowerCase
LowerChar(c) ==
  IF \E i \in 1..26 : UpperCase[i] = c
    THEN LowerCase[CHOOSE i \in 1..26 : UpperCase[i] = c]
    ELSE c
toLowerCase(t) == [i \in 1..Len(t) |-> LowerChar(t[i])]

\* String.prototype.trim
RECURSIVE TrimStart(_)
TrimStart(t) == IF t # <<>> /\ Head(t) = " " THEN TrimStart(Tail(t)) ELSE t
RECURSIVE TrimEnd(_)
TrimEnd(t) ==
  IF t # <<>> /\ t[Len(t)] = " " THEN TrimEnd(SubSeq(t, 1, Len(t) - 1)) ELSE t
trim(t) == TrimEnd(TrimStart(t))

\* String.prototype.includes
includes(t, q) ==
  \E i \in 0..(Len(t) - Len(q)) : SubSeq(t, i + 1, i + Len(q)) = q

\* String.prototype.split(',')
RECURSIVE SplitFrom(_, _)
SplitFrom(t, cur) ==
  IF t = <<>> THEN <<cur>>
  ELSE IF Head(t) = "," THEN <<cur>> \o SplitFrom(Tail(t), <<>>)
  ELSE SplitFrom(Tail(t), Append(cur, Head(t)))
split(t) == SplitFrom(t, <<>>)

\* Array.prototype.includes on an array of texts
ArrayIncludes(arr, t) == \E i \in 1..Len(arr) : arr[i] = t

\* arr.map(z => z.trim()).filter(Boolean): the non-empty trimmed entries
RECURSIVE TrimmedEntries(_)
TrimmedEntries(arr) ==
  IF arr = <<>> THEN <<>>
  ELSE (IF trim(Head(arr)) # <<>> THEN <<trim(Head(arr))>> ELSE <<>>)
         \o TrimmedEntries(Tail(arr))

\* decimal digits of a natural number
RECURSIVE NatText(_)
NatText(i) ==
  IF i < 10 THEN <<Digits[i + 1]>>
  ELSE Append(NatText(i \div 10), Digits[(i % 10) + 1])

\* String(value)
String(v) ==
  CASE v.k = "string" -> v.s
    [] v.k = "number" -> IF v.n < 0 THEN <<"-">> \o NatText(-v.n) ELSE NatText(v.n)
    [] v.k = "NaN" -> <<"N", "a", "N">>
    [] v.k = "Infinity" -> <<"I", "n", "f", "i", "n", "i", "t", "y">>
    [] OTHER -> <<"u", "n", "d", "e", "f", "i", "n", "e", "d">>

RECURSIVE DigitsValue(_, _)
DigitsValue(t, acc) ==
  IF t = <<>> THEN acc ELSE DigitsValue(Tail(t), 10 * acc + DigitValue(Head(t)))

AllDigits(t) == t # <<>> /\ \A i \in 1..Len(t) : IsDigit(t[i])

\* StringToNumber: white space is trimmed, the empty text is 0, a decimal
\* integer is its value, "Infinity" is infinite, any other text is NaN
TextToNumber(t) ==
  LET u == trim(t) IN
    IF u = <<>> THEN Num(0)
    ELSE IF AllDigits(u) THEN Num(DigitsValue(u, 0))
    ELSE IF Head(u) = "-" /\ AllDigits(Tail(u)) THEN Num(-DigitsValue(Tail(u), 0))
    ELSE IF u = <<"I", "n", "f", "i", "n", "i", "t", "y">> THEN Infinity
    ELSE NaN

\* Number(value)
Number(v) ==
  CASE v.k = "string" -> TextToNumber(v.s)
    [] v.k = "undefined" -> NaN
    [] OTHER -> v

\* Number.isNaN(value)
NumberIsNaN(v) == v.k = "NaN"

\* ToBoolean(value): undefined, 0, NaN and the empty text are falsy
Truthy(v) ==
  CASE v.k = "undefined" -> FALSE
    [] v.k = "NaN" -> FALSE
    [] v.k = "number" -> v.n # 0
    [] v.k = "string" -> v.s # <<>>
    [] OTHER -> TRUE

----------------------------------------------------------------------------
(* Program constants *)

DEFAULT_COORDS == <<420987, -759180>>
DEFAULT_ZOOM == 12
\* debounce delays of the search box and of the ZIP box, in milliseconds
SEARCH_DELAY == 250
ZIP_DELAY == 300
\* bounds.pad(0.1): the buffer on each side, in percent of the box
PAD_PERCENT == 10

Revisions == 1..4

----------------------------------------------------------------------------
(* Rows of data.geocoded.json *)

Row(name, type, zip, lat, lon) ==
  [Name |-> name, Type |-> type, Zip |-> zip, latitude |-> lat, longitude |-> lon]

Shelters == <<"S", "h", "e", "l", "t", "e", "r", "s">>
FoodPantries == <<"F", "o", "o", "d", " ", "P", "a", "n", "t", "r", "i", "e", "s">>
BlessingBoxes ==
  <<"B", "l", "e", "s", "s", "i", "n",
    "g", " ", "B", "o", "x", "e", "s">>
CommunityMeals ==
  <<"C", "o", "m", "m", "u", "n", "i",
    "t", "y", " ", "M", "e", "a", "l", "s">>
FoodPantriesSchool ==
  <<"F", "o", "o", "d", " ", "P", "a", "n", "t", "r", "i",
    "e", "s", " ", "(", "S", "c", "h", "o", "o", "l", ")">>
MobileFoodPantries ==
  <<"M", "o", "b", "i", "l", "e", " ", "F", "o", "o",
    "d", " ", "P", "a", "n", "t", "r", "i", "e", "s">>
SeniorCenters ==
  <<"S", "e", "n", "i", "o", "r", " ",
    "C", "e", "n", "t", "e", "r", "s">>
Zip13850 == <<"1", "3", "8", "5", "0">>
Zip13901 == <<"1", "3", "9", "0", "1">>

\* The rows a dataset is drawn from: numeric and textual coordinates, a
\* numeric and a textual Zip, a coordinate of 0, empty and malformed
\* coordinates, rows with neither Name nor Type.
RowPool ==
  << Row(Undefined, Undefined, Undefined, Num(421200), Num(-759200)),
     Row(Str(<<"A">>), Str(Shelters), Str(Zip13850), Num(421000), Num(-759000)),
     Row(Str(<<"a", "b">>), Str(FoodPantries), Num(13850),
         Str(<<"4", "2", "1", "5", "0", "0">>),
         Str(<<"-", "7", "5", "9", "5", "0", "0">>)),
     Row(Str(<<"B", "a">>), Str(FoodPantries), Str(Zip13901),
         Str(<<"a", "b", "c">>), Str(<<"-", "7", "5", "9", "0", "0", "0">>)),
     Row(Str(<<"B">>), Str(FoodPantries), Undefined, Str(<<>>), Str(<<>>)),
     Row(Undefined, Undefined, Str(Zip13901), Num(0), Num(-759000)) >>

\* A dataset is a run of at most MaxRows consecutive rows of the pool, named
\* by the positions of its rows in the pool.
Datasets ==
  { [k \in 1..n |-> i + k - 1] :
      i \in 1..Len(RowPool), n \in 0..MaxRows } \cap
  UNION { [1..n -> 1..Len(RowPool)] : n \in 0..MaxRows }

\* the types the markers of revision 3 have an icon for
IconTypes == << BlessingBoxes, CommunityMeals, FoodPantries, FoodPantriesSchool,
                MobileFoodPantries, SeniorCenters, Shelters >>

\* Rows for the type filter, all mappable: one without Type, then one of
\* each type.  The first types are those with an icon; the types after them
\* are named by one capital letter.  The rows follow those of RowPool.
TypedPool ==
  << Row(Str(<<"N">>), Undefined, Str(Zip13850), Num(421000), Num(-759000)) >> \o
  [i \in 1..MaxTypes |->
     Row(Str(<<"N", UpperCase[i]>>),
         Str(IF i <= Len(IconTypes) THEN IconTypes[i] ELSE <<UpperCase[i]>>),
         Str(Zip13850), Num(421000 + i), Num(-759000))]

Pool == RowPool \o TypedPool

\* A typed dataset is a run of consecutive rows of TypedPool, in the order
\* of the pool or in the opposite order.
TypedDatasets ==
  LET Runs == { run \in (1..Len(TypedPool)) \X (0..Len(TypedPool)) :
                  run[1] + run[2] - 1 <= Len(TypedPool) }
  IN UNION { { [k \in 1..run[2] |-> Len(RowPool) + run[1] + k - 1],
               [k \in 1..run[2] |-> Len(RowPool) + run[1] + run[2] - k] } :
             run \in Runs }

\* what the user can have typed in the search box and in the ZIP box
SearchInputs ==
  { <<>>, <<" ", "B">>, <<"s", "h", "e", "l", "t">> }
ZipInputs ==
  { <<>>, <<",">>,
    <<" ">> \o Zip13850 \o <<" ", ",", "9", "9", "9", "9", "9">> }

----------------------------------------------------------------------------
(* filterRows *)

\* const types = Array.from(new Set(rows.map(r => r.Type).filter(Boolean)))
\* one checkbox is built for each of them
\* a slip: the types collected without .filter(Boolean), so that a row
\* without Type gets a box of its own
TypesOfUnfiltered(rs) == { rs[i].Type.s : i \in 1..Len(rs) }

TypesOf(rs) == { rs[i].Type.s : i \in { j \in 1..Len(rs) : Truthy(rs[j].Type) } }

\* the UTF-16 code unit of a character of the texts of the model
CodeUnit(c) ==
  IF c = " " THEN 32
  ELSE IF c = "(" THEN 40
  ELSE IF c = ")" THEN 41
  ELSE IF c = "," THEN 44
  ELSE IF c = "-" THEN 45
  ELSE IF IsDigit(c) THEN 48 + DigitValue(c)
  ELSE IF \E i \in 1..26 : UpperCase[i] = c
    THEN 64 + (CHOOSE i \in 1..26 : UpperCase[i] = c)
  ELSE 96 + (CHOOSE i \in 1..26 : LowerCase[i] = c)

\* the default comparison of Array.prototype.sort: a sorts before b
RECURSIVE Before(_, _)
Before(a, b) ==
  IF b = <<>> THEN FALSE
  ELSE IF a = <<>> THEN TRUE
  ELSE IF Head(a) = Head(b) THEN Before(Tail(a), Tail(b))
  ELSE CodeUnit(Head(a)) < CodeUnit(Head(b))

\* Array.from(set).sort()
RECURSIVE sort(_)
sort(S) ==
  IF S = {} THEN <<>>
  ELSE LET first == CHOOSE x \in S : \A y \in S \ {x} : Before(x, y)
       IN <<first>> \o sort(S \ {first})

\* the index (from 0) forEach passes with the element t of the array q
IndexOf(q, t) == (CHOOSE i \in 1..Len(q) : q[i] = t) - 1

colors == << "#289237ff", "#3a5ddbff", "#24a0a0ff", "#6e1788ff", "#a11337ff",
             "#d46e26ff", "#d0ad14ff", "#f032e6", "#bcf60c" >>

\* an element with no inline color: it inherits the color of its parent
Inherited == ""

\* types.forEach((t,i) => typeColors[t] = colors[i % colors.length])
TypeColorsOf(rs) ==
  LET types == sort(TypesOf(rs)) IN
    [t \in TypesOf(rs) |-> colors[(IndexOf(types, t) % Len(colors)) + 1]]

\* revision 3: contanier.style.color = colors[i]; past the end of the array
\* colors[i] is undefined, which is no color, and the style stays unset
ContainerColorsOf(rs) ==
  LET types == sort(TypesOf(rs)) IN
    [t \in TypesOf(rs) |->
       IF IndexOf(types, t) < Len(colors) THEN colors[IndexOf(types, t) + 1]
       ELSE Inherited]

\* the color each entry of TYPE_FILTERS is given: the span of the label
\* takes typeColors[t]; revision 3 colors the container by colors[i]
EntryColorsOf(r, rs) == IF r = 3 THEN ContainerColorsOf(rs) ELSE TypeColorsOf(rs)

\* SEARCH.value.trim().toLowerCase()
QueryOf(search) == toLowerCase(trim(search))

\* ZIP_INPUT.value.split(',').map(z => z.trim()).filter(Boolean)
ZipListOf(zip) == TrimmedEntries(split(zip))

\* a slip: the size test written `>= 0`, which is always true
TypeRejectsSizeAlwaysTrue(row, activeTypes) ==
  ~(row.Type.k = "string" /\ row.Type.s \in activeTypes)

\* activeTypes.size && !activeTypes.has(row.Type)
TypeRejects(row, activeTypes) ==
  activeTypes # {} /\ ~(row.Type.k = "string" /\ row.Type.s \in activeTypes)

\* a slip: the Name compared without lower-casing it
SearchRejectsCaseSensitive(row, query) ==
  query # <<>>
    /\ ~includes(IF Truthy(row.Name) THEN row.Name.s ELSE <<>>, query)

\* query && !(row.Name || '').toLowerCase().includes(query)
SearchRejects(row, query) ==
  query # <<>>
    /\ ~includes(toLowerCase(IF Truthy(row.Name) THEN row.Name.s ELSE <<>>), query)

\* a slip: row.Zip looked up without String(), so a numeric Zip never matches
ZipRejectsWithoutString(row, zipList) ==
  zipList # <<>>
    /\ (~Truthy(row.Zip) \/ ~(row.Zip.k = "string" /\ ArrayIncludes(zipList, row.Zip.s)))

\* zipList.length && (!row.Zip || !zipList.includes(String(row.Zip)))
ZipRejects(row, zipList) ==
  zipList # <<>> /\ (~Truthy(row.Zip) \/ ~ArrayIncludes(zipList, String(row.Zip)))

\* a slip: the search gate and the ZIP gate joined by || instead of each
\* returning false on its own
RowPassesEitherText(row, activeTypes, query, zipList) ==
  IF TypeRejects(row, activeTypes) THEN FALSE
  ELSE IF SearchRejects(row, query) /\ ZipRejects(row, zipList) THEN FALSE
  ELSE Truthy(row.latitude) /\ Truthy(row.longitude)

\* the callback of rows.filter(...)
RowPasses(row, activeTypes, query, zipList) ==
  IF TypeRejects(row, activeTypes) THEN FALSE
  ELSE IF SearchRejects(row, query) THEN FALSE
  ELSE IF ZipRejects(row, zipList) THEN FALSE
  ELSE Truthy(row.latitude) /\ Truthy(row.longitude)

\* a slip: the kept rows collected with unshift, last row first
RECURSIVE KeepFromReversed(_, _, _, _, _)
KeepFromReversed(rs, i, activeTypes, query, zipList) ==
  IF i > Len(rs) THEN <<>>
  ELSE KeepFromReversed(rs, i + 1, activeTypes, query, zipList)
         \o (IF RowPasses(rs[i], activeTypes, query, zipList) THEN <<i>> ELSE <<>>)

RECURSIVE KeepFrom(_, _, _, _, _)
KeepFrom(rs, i, activeTypes, query, zipList) ==
  IF i > Len(rs) THEN <<>>
  ELSE (IF RowPasses(rs[i], activeTypes, query, zipList) THEN <<i>> ELSE <<>>)
         \o KeepFrom(rs, i + 1, activeTypes, query, zipList)

\* filterRows(rows) with the page's inputs as they are when it runs: the
\* checked type boxes, SEARCH.value and ZIP_INPUT.value.  The result names
\* each kept row by its position in rows, in the order of rows.
filterRows(rs, boxes, search, zip) ==
  KeepFrom(rs, 1, boxes, QueryOf(search), ZipListOf(zip))

----------------------------------------------------------------------------
(* toGeoJSON and the export handlers *)

\* JSON.stringify of a number: NaN and Infinity are written as null
Null == [k |-> "null", n |-> 0, s |-> <<>>]
JsonNumber(v) == IF v.k = "number" THEN v ELSE Null

\* the object one element of features is mapped to; geometry is null when
\* row.longitude && row.latitude is falsy
FeatureOf(row) ==
  [ type |-> "Feature",
    hasGeometry |-> Truthy(row.longitude) /\ Truthy(row.latitude),
    coordinates |-> <<Number(row.longitude), Number(row.latitude)>>,
    properties |-> row ]

RECURSIVE WithGeometry(_)
WithGeometry(fs) ==
  IF fs = <<>> THEN <<>>
  ELSE (IF Head(fs).hasGeometry THEN <<Head(fs)>> ELSE <<>>)
         \o WithGeometry(Tail(fs))

\* features.map(({ row }) => ...): an element without a `row` property
\* gives row = undefined, and row.longitude then throws a TypeError
Throws(features) == \E i \in 1..Len(features) : "row" \notin DOMAIN features[i]

toGeoJSON(features) ==
  WithGeometry([i \in 1..Len(features) |-> FeatureOf(features[i].row)])

\* JSON.stringify(obj, null, 2) as far as the coordinates go
Serialized(fs) ==
  [ i \in 1..Len(fs) |->
      [ type |-> "Feature",
        coordinates |-> << JsonNumber(fs[i].coordinates[1]),
                           JsonNumber(fs[i].coordinates[2]) >>,
        properties |-> fs[i].properties ] ]

NoDownload == [k |-> "none", filename |-> "", features |-> <<>>]
Thrown == [k |-> "TypeError", filename |-> "", features |-> <<>>]
Download(name, fs) == [k |-> "file", filename |-> name, features |-> Serialized(fs)]

\* the argument each revision's click handler hands to toGeoJSON:
\* revisions 1 and 3 pass the filtered rows themselves, revision 2 wraps
\* each one as { row }
ExportArgument(r, rs, kept) ==
  IF r = 2 THEN [i \in 1..Len(kept) |-> [row |-> rs[kept[i]]]]
  ELSE [i \in 1..Len(kept) |-> rs[kept[i]]]

ExportFilename(r) == IF r = 2 THEN "filtered.geojson" ELSE "filtered_data.geojson"

\* what a click on the download / export button leaves behind
ExportResult(r, rs, boxes, search, zip) ==
  LET arg == ExportArgument(r, rs, filterRows(rs, boxes, search, zip)) IN
    IF Throws(arg) THEN Thrown
    ELSE Download(ExportFilename(r), toGeoJSON(arg))

----------------------------------------------------------------------------
(* refreshMarkers *)

ICON_URL == "https://cdn-icons-png.flaticon.com/512/684/684908.png"

\* a slip: the break statements left out, so that every case falls through
\* to the default
IconOfFallingThrough(r, type) == ICON_URL

\* iconUrl of the icon of a marker: the switch on row.Type of revision 3,
\* the one icon of the other revisions
IconOf(r, type) ==
  IF r # 3 \/ type.k # "string" THEN ICON_URL
  ELSE CASE type.s = BlessingBoxes -> "./Completed markers/blessing_box.png"
         [] type.s = CommunityMeals -> "./Completed markers/community_meals.png"
         [] type.s = FoodPantries -> "./Completed markers/food_pantries.png"
         [] type.s = FoodPantriesSchool -> "./Completed markers/food_pantryschool.png"
         [] type.s = MobileFoodPantries -> "./Completed markers/mobile_foodpantry.png"
         [] type.s = SeniorCenters -> "./Completed markers/senior_center.png"
         [] type.s = Shelters -> "./Completed markers/shelter.png"
         [] OTHER -> ICON_URL

\* the marker of one row; rows whose latitude or longitude is NaN get none
RECURSIVE MarkersFrom(_, _, _)
MarkersFrom(r, rs, kept) ==
  IF kept = <<>> THEN <<>>
  ELSE LET row == rs[Head(kept)]
           lat == Number(row.latitude)
           lon == Number(row.longitude)
       IN (IF NumberIsNaN(lat) \/ NumberIsNaN(lon) THEN <<>>
           ELSE << [ row |-> Head(kept), lat |-> lat.n, lon |-> lon.n,
                     icon |-> IconOf(r, row.Type),
                     tooltip |-> IF Truthy(row.Name) THEN row.Name.s ELSE <<>> ] >>)
            \o MarkersFrom(r, rs, Tail(kept))

Min(S) == CHOOSE x \in S : \A y \in S : x <= y
Max(S) == CHOOSE x \in S : \A y \in S : x >= y

\* L.latLngBounds(points).pad(0.1)
PaddedBounds(ms) ==
  LET lats == { ms[i].lat : i \in 1..Len(ms) }
      lons == { ms[i].lon : i \in 1..Len(ms) }
      hb == ((Max(lats) - Min(lats)) * PAD_PERCENT) \div 100
      wb == ((Max(lons) - Min(lons)) * PAD_PERCENT) \div 100
  IN [ sw |-> <<Min(lats) - hb, Min(lons) - wb>>,
       ne |-> <<Max(lats) + hb, Max(lons) + wb>> ]

DefaultView == [kind |-> "setView", center |-> DEFAULT_COORDS, zoom |-> DEFAULT_ZOOM,
                sw |-> <<0, 0>>, ne |-> <<0, 0>>]
FitView(ms) == [kind |-> "fitBounds", center |-> <<0, 0>>, zoom |-> 0,
                sw |-> PaddedBounds(ms).sw, ne |-> PaddedBounds(ms).ne]

\* the text ends with the one-character ellipsis, written here as three dots
LoadingStatus == <<"Loading geocoded data...">>
PromptStatus == <<"Select filters to view locations.">>
ShowingStatus(n) == <<"Showing ">> \o NatText(n) \o <<" location(s).">>

\* a slip: the auto-fit left out, the view always reset to the default
ViewForWithoutFit(ms) == DefaultView

\* the branch that ends refreshMarkers
ViewFor(ms) == IF Len(ms) # 0 THEN FitView(ms) ELSE DefaultView
StatusFor(ms) == IF Len(ms) # 0 THEN ShowingStatus(Len(ms)) ELSE PromptStatus

----------------------------------------------------------------------------
(* The page *)

VARIABLES
  rev,          \* the revision of the script the page runs
  phase,        \* main(): "loading" until the fetch settles, then "ready" or "failed"
  loaded,       \* the positions in Pool of the rows the fetch returned
  checked,      \* the data-type of the checked boxes of TYPE_FILTERS
  searchValue,  \* SEARCH.value
  zipValue,     \* ZIP_INPUT.value
  timers,       \* per debounced box, the pending timeouts (ms left), oldest first
  markers,      \* the layers of cluster
  status,       \* STATUS.textContent
  view,         \* the last setView / fitBounds request made to the map
  download,     \* the file the handler that just ran offered for download
  last,         \* history: the event handled last
  quiet,        \* history: per box, ms since its last input event (up to its delay)
  burstRenders, \* history: per box, renders its timeouts ran since its last input event
  owed,         \* history: filter mutations so far minus render cycles so far
  captures,     \* html2canvas promises in flight
  popupDisplay, \* style.display of .leaflet-popup-pane
  headerDisplay,\* style.display of <header>
  label,        \* textContent of the copy button of the open popup
  copying,      \* revision 1: per clipboard write in flight, the originalText it read
  feedback,     \* pending label timeouts: ms left and the text each will put back
  lookups,      \* fetchForecast calls in flight: the click and the request awaited
  weather,      \* innerHTML of .weather-box
  entryColor,   \* per type, the inline color of its entry in TYPE_FILTERS
  typeColors    \* the table typeColors of main()

\* the parts of the page outside the filter/render path
widgets == << captures, popupDisplay, headerDisplay, label, copying, feedback,
              lookups, weather, entryColor, typeColors >>

vars == << rev, phase, loaded, checked, searchValue, zipValue, timers, markers,
           status, view, download, last, quiet, burstRenders, owed, widgets >>

\* const rows = await fetchJSON(...)
rows == [i \in 1..Len(loaded) |-> Pool[loaded[i]]]

Boxes == {"search", "zip"}
Delay(box) == IF box = "search" THEN SEARCH_DELAY ELSE ZIP_DELAY

\* an event, the box it belongs to, and for an input event whether it
\* cancelled a pending timeout
Event(ev, box) == [ev |-> ev, box |-> box, cancelled |-> FALSE]
InputEvent(box, cancelled) == [ev |-> "input", box |-> box, cancelled |-> cancelled]

\* an element with no inline display, and the states of the elements that
\* exist only once main() or Leaflet has built them
StyleSheet == ""
NoButton == ""
NoWidget == [k |-> "none", place |-> 0]

\* the texts of .weather-box: the one weatherControl.onAdd gives it, the
\* forecast of a place, and the one the catch of fetchForecast gives it
LoadingWeather == [k |-> "Loading weather...", place |-> 0]
Forecast(place) == [k |-> "forecast", place |-> place]
Unavailable == [k |-> "Unable to load weather", place |-> 0]

Init ==
  /\ rev \in Revisions
  /\ phase = "loading"
  /\ loaded = <<>>
  /\ checked = {}
  /\ searchValue = <<>>
  /\ zipValue = <<>>
  /\ timers = [b \in Boxes |-> <<>>]
  /\ markers = <<>>
  /\ status = LoadingStatus
  /\ view = DefaultView
  /\ download = NoDownload
  /\ last = Event("start", "-")
  /\ quiet = [b \in Boxes |-> Delay(b)]
  /\ burstRenders = [b \in Boxes |-> 0]
  /\ owed = 0
  /\ captures = 0
  /\ popupDisplay = StyleSheet
  /\ headerDisplay = StyleSheet
  /\ label = NoButton
  /\ copying = <<>>
  /\ feedback = <<>>
  /\ lookups = <<>>
  /\ weather = NoWidget
  /\ entryColor = <<>>
  /\ typeColors = <<>>

\* main() after the fetch resolved: the checkboxes, the map, the listeners,
\* and the initial UI state
Load(datasets) ==
  /\ phase = "loading"
  /\ \E ds \in datasets : loaded' = ds
  /\ phase' = "ready"
  /\ view' = DefaultView
  /\ status' = PromptStatus
  /\ download' = NoDownload
  /\ last' = Event("load", "-")
  /\ UNCHANGED << rev, checked, searchValue, zipValue, timers, markers,
                  quiet, burstRenders, owed >>
  /\ weather' = IF rev \in {1, 4} THEN LoadingWeather ELSE NoWidget
  /\ typeColors' = TypeColorsOf(rows')
  /\ entryColor' = EntryColorsOf(rev, rows')
  /\ UNCHANGED << captures, popupDisplay, headerDisplay, label, copying,
                  feedback, lookups >>

LoadOk == Load(Datasets)

\* the same with a dataset of many types
LoadTyped == Load(TypedDatasets)

\* fetchJSON threw (network error, !r.ok, or a body that is no JSON): main()
\* rejects at its first await and nothing after it runs
LoadFail ==
  /\ phase = "loading"
  /\ phase' = "failed"
  /\ last' = Event("loadfail", "-")
  /\ UNCHANGED << rev, loaded, checked, searchValue, zipValue, timers, markers,
                  status, view, download, quiet, burstRenders, owed >>
  /\ UNCHANGED widgets

\* history: `mutations` more filter mutations, `cycles` more render cycles
Account(mutations, cycles) == owed' = owed + mutations - cycles

\* a slip: the layers of the earlier renders are left in the cluster
clearLayersKeeping(layers) == layers

\* cluster.clearLayers()
clearLayers(layers) == <<>>

\* refreshMarkers(), run with the inputs the page has when it runs
refreshMarkers(boxes, search, zip) ==
  LET ms == MarkersFrom(rev, rows, filterRows(rows, boxes, search, zip)) IN
    /\ markers' = clearLayers(markers) \o ms
    /\ view' = ViewFor(ms)
    /\ status' = StatusFor(ms)

\* a slip: the render keeps the filtered rows as the rows of the page
TypeChangeNarrowingRows ==
  /\ phase = "ready"
  /\ \E t \in TypesOf(rows) :
       /\ checked' = IF t \in checked THEN checked \ {t} ELSE checked \cup {t}
       /\ refreshMarkers(checked', searchValue, zipValue)
       /\ LET kept == filterRows(rows, checked', searchValue, zipValue)
          IN loaded' = [i \in 1..Len(kept) |-> loaded[kept[i]]]
  /\ Account(1, 1)
  /\ download' = NoDownload
  /\ last' = Event("change", "-")
  /\ UNCHANGED << rev, phase, searchValue, zipValue, timers, quiet,
                  burstRenders >>
  /\ UNCHANGED widgets

\* TYPE_FILTERS 'change': the user toggles one type box
TypeChange ==
  /\ phase = "ready"
  /\ \E t \in TypesOf(rows) :
       /\ checked' = IF t \in checked THEN checked \ {t} ELSE checked \cup {t}
       /\ refreshMarkers(checked', searchValue, zipValue)
  /\ Account(1, 1)
  /\ download' = NoDownload
  /\ last' = Event("change", "-")
  /\ UNCHANGED << rev, phase, loaded, searchValue, zipValue, timers, quiet,
                  burstRenders >>
  /\ UNCHANGED widgets

\* clearTimeout(t): t names the timeout this wrapper created last
clearTimeout(pending) ==
  IF pending = <<>> THEN pending ELSE SubSeq(pending, 1, Len(pending) - 1)

\* a slip: the wrapper schedules without cancelling the pending timeout
debouncedWithoutClear(pending, delay) == Append(pending, delay)

\* the function debounce(fn, delay) returns: clearTimeout(t); t = setTimeout(...)
debounced(pending, delay) == Append(clearTimeout(pending), delay)

\* 'input' on SEARCH or ZIP_INPUT: the user edits the text of the box
Input(box) ==
  /\ phase = "ready"
  /\ IF box = "search"
       THEN /\ \E v \in SearchInputs \ {searchValue} : searchValue' = v
            /\ zipValue' = zipValue
       ELSE /\ \E v \in ZipInputs \ {zipValue} : zipValue' = v
            /\ searchValue' = searchValue
  /\ timers' = [timers EXCEPT ![box] = debounced(timers[box], Delay(box))]
  /\ quiet' = [quiet EXCEPT ![box] = 0]
  /\ burstRenders' = [burstRenders EXCEPT ![box] = 0]
  /\ Account(IF timers[box] = <<>> THEN 1 ELSE 0, 0)
  /\ download' = NoDownload
  /\ last' = InputEvent(box, timers[box] # <<>>)
  /\ UNCHANGED << rev, phase, loaded, checked, markers, status, view >>
  /\ UNCHANGED widgets

SearchInput == Input("search")
ZipInput == Input("zip")

\* a timeout of a debounced box is due: its callback runs refreshMarkers
Timeout(box) ==
  /\ phase = "ready"
  /\ timers[box] # <<>>
  /\ Head(timers[box]) = 0
  /\ timers' = [timers EXCEPT ![box] = Tail(timers[box])]
  /\ refreshMarkers(checked, searchValue, zipValue)
  /\ burstRenders' = [burstRenders EXCEPT ![box] = burstRenders[box] + 1]
  /\ Account(0, 1)
  /\ download' = NoDownload
  /\ last' = Event("timeout", box)
  /\ UNCHANGED << rev, phase, loaded, checked, searchValue, zipValue, quiet >>
  /\ UNCHANGED widgets

SearchTimeout == Timeout("search")
ZipTimeout == Timeout("zip")

\* a slip: the clock of the timeouts stands still
ElapseStalled(ms) == ms

\* the time left of a pending timeout after one step of the clock
Elapse(ms) == IF ms > TickMs THEN ms - TickMs ELSE 0

\* time passes while no timeout is due
Tick ==
  /\ phase = "ready"
  /\ \E b \in Boxes : timers[b] # <<>>
  /\ \A b \in Boxes : \A i \in 1..Len(timers[b]) : timers[b][i] > 0
  /\ timers' = [b \in Boxes |-> [i \in 1..Len(timers[b]) |-> Elapse(timers[b][i])]]
  /\ quiet' = [b \in Boxes |->
                 IF quiet[b] + TickMs > Delay(b) THEN Delay(b) ELSE quiet[b] + TickMs]
  /\ download' = NoDownload
  /\ last' = Event("tick", "-")
  /\ UNCHANGED << rev, phase, loaded, checked, searchValue, zipValue, markers,
                  status, view, burstRenders, owed >>
  /\ UNCHANGED widgets

\* a slip: the handler clears the inputs and forgets refreshMarkers()
ResetWithoutRender ==
  /\ phase = "ready"
  /\ searchValue' = <<>>
  /\ zipValue' = <<>>
  /\ checked' = {}
  /\ Account(1, 0)
  /\ download' = NoDownload
  /\ last' = Event("reset", "-")
  /\ UNCHANGED << rev, phase, loaded, timers, markers, status, view, quiet,
                  burstRenders >>
  /\ UNCHANGED widgets

\* RESET 'click'
Reset ==
  /\ phase = "ready"
  /\ searchValue' = <<>>
  /\ zipValue' = <<>>
  /\ checked' = {}
  /\ refreshMarkers(checked', searchValue', zipValue')
  /\ Account(1, 1)
  /\ download' = NoDownload
  /\ last' = Event("reset", "-")
  /\ UNCHANGED << rev, phase, loaded, timers, quiet, burstRenders >>
  /\ UNCHANGED widgets

\* a slip: the export listener registered before the fetch is awaited
ExportBeforeLoad ==
  /\ phase # "failed"
  /\ rev \in 1..3
  /\ download' = ExportResult(rev, rows, checked, searchValue, zipValue)
  /\ last' = Event("export", "-")
  /\ UNCHANGED << rev, phase, loaded, checked, searchValue, zipValue, timers,
                  markers, status, view, quiet, burstRenders, owed >>
  /\ UNCHANGED widgets

\* a slip: the handler empties the cluster before it builds the file, so an
\* export that throws leaves the map without markers
ExportClearingLayers ==
  /\ phase = "ready"
  /\ rev \in 1..3
  /\ download' = ExportResult(rev, rows, checked, searchValue, zipValue)
  /\ markers' = IF download' = Thrown THEN <<>> ELSE markers
  /\ last' = Event("export", "-")
  /\ UNCHANGED << rev, phase, loaded, checked, searchValue, zipValue, timers,
                  status, view, quiet, burstRenders, owed >>
  /\ UNCHANGED widgets

\* DOWNLOAD / EXPORT_BTN 'click' (revision 4 has no such button)
Export ==
  /\ phase = "ready"
  /\ rev \in 1..3
  /\ download' = ExportResult(rev, rows, checked, searchValue, zipValue)
  /\ last' = Event("export", "-")
  /\ UNCHANGED << rev, phase, loaded, checked, searchValue, zipValue, timers,
                  markers, status, view, quiet, burstRenders, owed >>
  /\ UNCHANGED widgets

\* the user acts on the page while main() has registered no listener: the
\* fetch is still in flight, or it failed and main() never got past its
\* first await.  An edit changes the text of the box and nothing else; a
\* click on RESET or DOWNLOAD changes nothing.
Unheard ==
  /\ phase # "ready"
  /\ \E target \in {"search", "zip", "reset", "export"} :
       /\ searchValue' \in (IF target = "search" THEN SearchInputs \ {searchValue}
                                                ELSE {searchValue})
       /\ zipValue' \in (IF target = "zip" THEN ZipInputs \ {zipValue}
                                          ELSE {zipValue})
       /\ last' = Event("unheard", target)
  /\ download' = NoDownload
  /\ UNCHANGED << rev, phase, loaded, checked, timers, markers, status, view,
                  quiet, burstRenders, owed >>
  /\ UNCHANGED widgets

----------------------------------------------------------------------------
(* The screenshot button (revisions 1 and 3) *)

MaxCaptures == 2

Screenshot == [k |-> "image", filename |-> "community_map_screenshot.png",
               features |-> <<>>]

\* the frame of the actions of the screenshot button
ShotFrame ==
  UNCHANGED << rev, phase, loaded, checked, searchValue, zipValue, timers,
               markers, status, view, quiet, burstRenders, owed,
               label, copying, feedback, lookups, weather,
               entryColor, typeColors >>

\* SCREENSHOT 'click': hide the popup pane and the header, call html2canvas
ShotClick ==
  /\ phase = "ready"
  /\ rev \in {1, 3}
  /\ captures < MaxCaptures
  /\ popupDisplay' = "none"
  /\ headerDisplay' = "none"
  /\ captures' = captures + 1
  /\ download' = NoDownload
  /\ last' = Event("shot", "-")
  /\ ShotFrame

\* html2canvas(...) resolved: the .then callback offers the image and
\* restores the two elements
ShotResolve ==
  /\ captures > 0
  /\ captures' = captures - 1
  /\ download' = Screenshot
  /\ popupDisplay' = "block"
  /\ headerDisplay' = "block"
  /\ last' = Event("shotdone", "-")
  /\ ShotFrame

\* html2canvas(...) rejected: the promise chain has no rejection handler
ShotReject ==
  /\ captures > 0
  /\ captures' = captures - 1
  /\ download' = NoDownload
  /\ last' = Event("shotfail", "-")
  /\ UNCHANGED << popupDisplay, headerDisplay >>
  /\ ShotFrame

ShotNext ==
  \/ LoadOk
  \/ LoadFail
  \/ TypeChange
  \/ Reset
  \/ ShotClick
  \/ ShotResolve
  \/ ShotReject

ShotSpec == Init /\ [][ShotNext]_vars

----------------------------------------------------------------------------
(* The copy button of a popup (revisions 1 and 3) *)

MaxCopies == 2
CopyTickMs == 500

CopyInfo == "Copy Info"

\* the text the button shows after a copy that worked / that did not, and
\* for how long: revision 1 handleCopyClick, revision 3 copyToClipboard
CopiedText(r) == IF r = 1 THEN "Information Copied" ELSE "Copied!"
FailedText(r) == IF r = 1 THEN "Error" ELSE "Copy Failed"
CopiedDelay(r) == IF r = 1 THEN 1500 ELSE 1000
FailedDelay(r) == IF r = 1 THEN 2000 ELSE 1500

\* setTimeout(() => { btn.textContent = originalText }, delay)
Restore(originalText, delay) == [left |-> delay, text |-> originalText]

\* what a copy that has ended does to the button: the feedback text, and
\* the timeout that puts back the text read as originalText
Feedback(ok, originalText) ==
  /\ label' = IF ok THEN CopiedText(rev) ELSE FailedText(rev)
  /\ feedback' = Append(feedback,
                        Restore(originalText,
                                IF ok THEN CopiedDelay(rev) ELSE FailedDelay(rev)))

\* history: a step of a copy, how the copy went and the mechanisms the
\* handler has used for it
CopyEvent(ev, outcome, used) ==
  [ev |-> ev, box |-> "-", cancelled |-> FALSE, outcome |-> outcome, used |-> used]

CopyFrame ==
  UNCHANGED << rev, phase, loaded, checked, searchValue, zipValue, timers,
               markers, status, view, quiet, burstRenders, owed,
               captures, popupDisplay, headerDisplay, lookups, weather,
               entryColor, typeColors >>

\* the user clicks a marker: Leaflet builds the popup from buildPopup(row)
OpenPopup ==
  /\ phase = "ready"
  /\ rev \in {1, 3}
  /\ markers # <<>>
  /\ label = NoButton
  /\ label' = CopyInfo
  /\ download' = NoDownload
  /\ last' = Event("popup", "-")
  /\ UNCHANGED << copying, feedback >>
  /\ CopyFrame

\* 'click' on the copy button.  Revision 1 reads originalText and awaits
\* navigator.clipboard.writeText; revision 3 runs execCommand('copy') at
\* once, which returns true or false, or throws (then the label is left alone)
CopyClick ==
  /\ phase = "ready"
  /\ rev \in {1, 3}
  /\ label # NoButton
  /\ Len(copying) + Len(feedback) < MaxCopies
  /\ IF rev = 1
       THEN /\ copying' = Append(copying, label)
            /\ UNCHANGED << label, feedback >>
            /\ last' = CopyEvent("copy", "pending", {"clipboard.writeText"})
       ELSE /\ copying' = copying
            /\ \E outcome \in {"true", "false", "throws"} :
                 /\ IF outcome = "throws" THEN UNCHANGED << label, feedback >>
                    ELSE Feedback(outcome = "true", label)
                 /\ last' = CopyEvent("copy", outcome, {"textarea"})
  /\ download' = NoDownload
  /\ CopyFrame

\* revision 1: a clipboard write settles and handleCopyClick resumes; when
\* it rejected the catch also shows the text in a window.prompt
CopySettle ==
  /\ copying # <<>>
  /\ \E i \in 1..Len(copying), ok \in BOOLEAN :
       /\ Feedback(ok, copying[i])
       /\ copying' = SubSeq(copying, 1, i - 1) \o SubSeq(copying, i + 1, Len(copying))
       /\ last' = IF ok THEN CopyEvent("copied", "resolved", {"clipboard.writeText"})
                        ELSE CopyEvent("copied", "rejected",
                                       {"clipboard.writeText", "window.prompt"})
  /\ download' = NoDownload
  /\ CopyFrame

\* the oldest label timeout that is due runs
FeedbackTimeout ==
  /\ \E i \in 1..Len(feedback) :
       /\ feedback[i].left = 0
       /\ \A j \in 1..(i - 1) : feedback[j].left > 0
       /\ label' = feedback[i].text
       /\ feedback' = SubSeq(feedback, 1, i - 1) \o SubSeq(feedback, i + 1, Len(feedback))
  /\ download' = NoDownload
  /\ last' = Event("relabel", "-")
  /\ UNCHANGED copying
  /\ CopyFrame

\* time passes while no label timeout is due
CopyTick ==
  /\ feedback # <<>>
  /\ \A i \in 1..Len(feedback) : feedback[i].left > 0
  /\ feedback' = [i \in 1..Len(feedback) |->
                    [feedback[i] EXCEPT !.left = IF @ > CopyTickMs THEN @ - CopyTickMs
                                                                   ELSE 0]]
  /\ download' = NoDownload
  /\ last' = Event("tick", "-")
  /\ UNCHANGED << label, copying >>
  /\ CopyFrame

\* the popup stays open while its button is used: the filters are set
\* before it is opened
CopyNext ==
  \/ LoadOk
  \/ label = NoButton /\ TypeChange
  \/ OpenPopup
  \/ CopyClick
  \/ CopySettle
  \/ FeedbackTimeout
  \/ CopyTick

CopySpec == Init /\ [][CopyNext]_vars

----------------------------------------------------------------------------
(* The weather box (revisions 1 and 4) *)

MaxLookups == 2
\* the places of the map the user clicks: one, clicked again and again
ClickPlaces == 1..1

\* how a request of fetchForecast can end: fetch rejects, the response is
\* not ok, the body is not the JSON expected (json() rejects, or a property
\* read throws), the grid point names no forecast URL, or all is well
PointOutcomes == {"rejects", "not ok", "bad body", "no forecast URL", "ok"}
ForecastOutcomes == {"rejects", "not ok", "bad body", "ok"}

Without(q, i) == SubSeq(q, 1, i - 1) \o SubSeq(q, i + 1, Len(q))

\* history: the text the most recent click that has ended wrote to the
\* box, as far as lookup i knows: its own text, unless the lookup of a later
\* click ended before it
Newest(q, i, text) == IF q[i].newer = NoWidget THEN text ELSE q[i].newer

\* lookup i ends and writes text to the box: it is done, and the lookups of
\* earlier clicks still in flight (they come before it in the sequence)
\* learn the text of the most recent click that has ended
Ended(q, i, text) ==
  Without([j \in 1..Len(q) |->
             IF j < i THEN [q[j] EXCEPT !.newer = Newest(q, i, text)] ELSE q[j]], i)

\* history: a lookup that ended, and the text of the most recent click
\* that has ended
LookupEvent(ev, newest) ==
  [ev |-> ev, box |-> "-", cancelled |-> FALSE, newest |-> newest]

WeatherFrame ==
  UNCHANGED << rev, phase, loaded, checked, searchValue, zipValue, timers,
               markers, status, view, quiet, burstRenders, owed,
               captures, popupDisplay, headerDisplay, label, copying, feedback,
               entryColor, typeColors >>

\* map 'click': fetchForecast(lat, lng) starts and awaits the grid point
MapClick ==
  /\ phase = "ready"
  /\ rev \in {1, 4}
  /\ Len(lookups) < MaxLookups
  /\ \E place \in ClickPlaces :
       lookups' = Append(lookups, [place |-> place, stage |-> "point",
                                   newer |-> NoWidget])
  /\ weather' = weather
  /\ download' = NoDownload
  /\ last' = Event("mapclick", "-")
  /\ WeatherFrame

\* a slip: the failure of the grid-point request escapes fetchForecast
PointResponseUncaught ==
  /\ \E i \in 1..Len(lookups), outcome \in PointOutcomes :
       /\ lookups[i].stage = "point"
       /\ IF outcome = "ok"
            THEN /\ lookups' = [lookups EXCEPT ![i].stage = "forecast"]
                 /\ weather' = weather
                 /\ last' = Event("gridpoint", "-")
            ELSE /\ lookups' = Without(lookups, i)
                 /\ weather' = weather
                 /\ last' = LookupEvent("lookupfailed", Newest(lookups, i, weather))
  /\ download' = NoDownload
  /\ WeatherFrame

\* the grid-point request of a lookup ends: on success fetchForecast goes
\* on to await the forecast request, otherwise its catch runs
PointResponse ==
  /\ \E i \in 1..Len(lookups), outcome \in PointOutcomes :
       /\ lookups[i].stage = "point"
       /\ IF outcome = "ok"
            THEN /\ lookups' = [lookups EXCEPT ![i].stage = "forecast"]
                 /\ weather' = weather
                 /\ last' = Event("gridpoint", "-")
            ELSE /\ lookups' = Ended(lookups, i, Unavailable)
                 /\ weather' = Unavailable
                 /\ last' = LookupEvent("lookupfailed", Newest(lookups, i, Unavailable))
  /\ download' = NoDownload
  /\ WeatherFrame

\* the forecast request of a lookup ends: the box gets the forecast of the
\* place clicked, or the catch runs
ForecastResponse ==
  /\ \E i \in 1..Len(lookups), outcome \in ForecastOutcomes :
       /\ lookups[i].stage = "forecast"
       /\ weather' = IF outcome = "ok" THEN Forecast(lookups[i].place) ELSE Unavailable
       /\ lookups' = Ended(lookups, i, weather')
       /\ last' = LookupEvent(IF outcome = "ok" THEN "forecast" ELSE "lookupfailed",
                              Newest(lookups, i, weather'))
  /\ download' = NoDownload
  /\ WeatherFrame

\* the weather box beside the filter/render path of a dataset of at most
\* one row, filtered by the search box and the reset button
WeatherNext ==
  \/ LoadOk /\ Len(loaded') <= 1
  \/ Reset
  \/ SearchInput
  \/ SearchTimeout
  \/ Tick
  \/ MapClick
  \/ PointResponse
  \/ ForecastResponse

WeatherSpec == Init /\ [][WeatherNext]_vars

----------------------------------------------------------------------------

Next ==
  \/ LoadOk
  \/ LoadFail
  \/ TypeChange
  \/ SearchInput
  \/ ZipInput
  \/ SearchTimeout
  \/ ZipTimeout
  \/ Tick
  \/ Reset
  \/ Export

Spec == Init /\ [][Next]_vars

\* the page with a user who also acts before main() has registered its
\* listeners; of the debounced boxes the search box is followed
LoadNext ==
  \/ Unheard
  \/ LoadOk
  \/ LoadFail
  \/ TypeChange
  \/ SearchInput
  \/ SearchTimeout
  \/ Tick
  \/ Reset
  \/ Export

LoadSpec == Init /\ [][LoadNext]_vars

\* the filter applied at once, without the debounced boxes: the texts of
\* the search and ZIP boxes are those typed while the fetch was in flight
FilterNext ==
  \/ Unheard
  \/ LoadOk
  \/ TypeChange
  \/ Reset
  \/ Export

FilterSpec == Init /\ [][FilterNext]_vars

\* the page built from a dataset of many types: the first toggle of a type
\* box of a fresh page, and Reset
ColorNext ==
  \/ LoadTyped
  \/ checked = {} /\ TypeChange
  \/ Reset

ColorSpec == Init /\ [][ColorNext]_vars

\* the page over datasets of at most one row, with the browser's guarantee
\* that time passes and that a timeout which is due runs its callback
LiveNext ==
  \/ LoadOk /\ Len(loaded') <= 1
  \/ TypeChange
  \/ SearchInput
  \/ ZipInput
  \/ SearchTimeout
  \/ ZipTimeout
  \/ Tick
  \/ Reset

\* the timeout of a box is due: Timeout(box) is enabled
Due(box) == phase = "ready" /\ timers[box] # <<>> /\ Head(timers[box]) = 0

\* weak fairness of Timeout(box), with its enabling condition written out
TimeoutRuns(box) == []<>(~Due(box)) \/ []<><<Timeout(box)>>_vars

LiveSpec ==
  /\ Init /\ [][LiveNext]_vars
  /\ WF_vars(Tick) /\ TimeoutRuns("search") /\ TimeoutRuns("zip")

----------------------------------------------------------------------------
(* Notions the properties are stated in *)

\* a coordinate field parses to a finite number: a number, or a non-blank
\* text that reads as one
ParsesFinite(v) ==
  \/ v.k = "number"
  \/ v.k = "string" /\ trim(v.s) # <<>> /\ TextToNumber(v.s).k = "number"

\* a mappable row
Mappable(row) == ParsesFinite(row.latitude) /\ ParsesFinite(row.longitude)
ParsedCoordinate(v) == IF v.k = "number" THEN v ELSE TextToNumber(v.s)

Positions == 1..Len(rows)
Elements(q) == { q[i] : i \in 1..Len(q) }

\* the rows filterRows keeps for the inputs the page has now
Kept == Elements(filterRows(rows, checked, searchValue, zipValue))
\* the rows shown as markers
Displayed == { markers[i].row : i \in 1..Len(markers) }
\* the handler that just ran ended with a render cycle
Rendered == last.ev \in {"change", "timeout", "reset"}

CoordinatesPresent(row) == Truthy(row.latitude) /\ Truthy(row.longitude)
TextOf(v) == IF v.k = "undefined" THEN <<>> ELSE String(v)

----------------------------------------------------------------------------
(* C1 *)

\* C1 (as claimed): a row whose latitude or longitude does not parse to a
\* finite number is never shown as a marker and never exported; every
\* exported feature has a Point geometry with two finite coordinates.
C1_UnmappableNeverShownNorExported ==
  /\ \A i \in Displayed : Mappable(rows[i])
  /\ download.k = "file" =>
       \A j \in 1..Len(download.features) :
         /\ Mappable(download.features[j].properties)
         /\ download.features[j].coordinates[1].k = "number"
         /\ download.features[j].coordinates[2].k = "number"

----------------------------------------------------------------------------
(* C2 *)

\* the features the claim expects of an export: one per mappable row that
\* the three gates let through, longitude first, the row as properties
RECURSIVE ExpectedFeatures(_)
ExpectedFeatures(i) ==
  IF i > Len(rows) THEN <<>>
  ELSE (IF /\ Mappable(rows[i])
           /\ ~TypeRejects(rows[i], checked)
           /\ ~SearchRejects(rows[i], QueryOf(searchValue))
           /\ ~ZipRejects(rows[i], ZipListOf(zipValue))
        THEN << [ type |-> "Feature",
                  coordinates |-> << ParsedCoordinate(rows[i].longitude),
                                     ParsedCoordinate(rows[i].latitude) >>,
                  properties |-> rows[i] ] >>
        ELSE <<>>) \o ExpectedFeatures(i + 1)

\* C2 (as claimed): in every revision a click on the export button yields a
\* FeatureCollection with exactly one Point feature per mappable row that
\* passes the current filter, coordinates [longitude, latitude], properties
\* the row.
C2_ExportIsExact ==
  last.ev = "export" =>
    /\ download.k = "file"
    /\ download.features = ExpectedFeatures(1)

----------------------------------------------------------------------------
(* C3 *)

EmptyFilterState == checked = {} /\ trim(searchValue) = <<>> /\ trim(zipValue) = <<>>

\* C3 (as claimed): a render cycle run with no type checked, a blank search
\* box and a blank ZIP box shows exactly the mappable rows, a row with a
\* coordinate equal to 0 included.
C3_EmptyFilterShowsMappable ==
  (Rendered /\ EmptyFilterState) =>
    Displayed = { i \in Positions : Mappable(rows[i]) }

----------------------------------------------------------------------------
(* C4 *)

\* the searchable text of the claim: the non-empty textual fields, joined
\* by single spaces
RECURSIVE JoinSpaced(_)
JoinSpaced(ts) ==
  IF ts = <<>> THEN <<>>
  ELSE IF Head(ts) = <<>> THEN JoinSpaced(Tail(ts))
  ELSE IF JoinSpaced(Tail(ts)) = <<>> THEN Head(ts)
  ELSE Head(ts) \o <<" ">> \o JoinSpaced(Tail(ts))
searchableText(row) == JoinSpaced(<<TextOf(row.Name), TextOf(row.Type), TextOf(row.Zip)>>)

----------------------------------------------------------------------------
(* C5 *)

\* C5: with no type box checked every row passes the type gate; with at
\* least one checked a row passes iff its Type is one of the checked types
\* (a row without Type never does); and whenever a type is checked no
\* marker of an unchecked type is on the map.
C5_TypeGate ==
  /\ \A i \in Positions :
       i \in Kept <=>
         /\ \/ checked = {}
            \/ rows[i].Type.k = "string" /\ rows[i].Type.s \in checked
         /\ ~SearchRejects(rows[i], QueryOf(searchValue))
         /\ ~ZipRejects(rows[i], ZipListOf(zipValue))
         /\ CoordinatesPresent(rows[i])
  /\ checked # {} =>
       \A i \in Displayed :
         rows[i].Type.k = "string" /\ rows[i].Type.s \in checked

\* a type box was just checked, rows of that type are shown, and a row of
\* another type that nothing else holds back is not
C5_Witness ==
  /\ last.ev = "change"
  /\ checked # {}
  /\ markers # <<>>
  /\ \E i \in Positions :
       /\ i \notin Displayed
       /\ Mappable(rows[i])
       /\ ~SearchRejects(rows[i], QueryOf(searchValue))
       /\ ~ZipRejects(rows[i], ZipListOf(zipValue))

----------------------------------------------------------------------------
(* C6 *)

HasZip(row) == row.Zip.k # "undefined" /\ String(row.Zip) # <<>>

----------------------------------------------------------------------------
(* C7 *)

Lats == { markers[i].lat : i \in 1..Len(markers) }
Lons == { markers[i].lon : i \in 1..Len(markers) }

\* the view is the fit of the smallest box that holds every marker, with a
\* tenth of its height and width added on each side
FittedToMarkers ==
  \E s \in Lats, n \in Lats, w \in Lons, e \in Lons :
    /\ \A x \in Lats : s <= x /\ x <= n
    /\ \A y \in Lons : w <= y /\ y <= e
    /\ view.kind = "fitBounds"
    /\ view.sw = << s - ((n - s) \div 10), w - ((e - w) \div 10) >>
    /\ view.ne = << n + ((n - s) \div 10), e + ((e - w) \div 10) >>

\* C7: right after every render cycle, N >= 1 markers come with the status
\* "Showing N location(s)." and the view fitted to their padded bounds, and
\* no marker comes with the prompt status and the default view.
C7_RenderStateMachine ==
  Rendered =>
    /\ Len(markers) >= 1 =>
         /\ status = <<"Showing ", Digits[Len(markers) + 1], " location(s).">>
         /\ FittedToMarkers
    /\ Len(markers) = 0 =>
         /\ status = <<"Select filters to view locations.">>
         /\ view.kind = "setView"
         /\ view.center = DEFAULT_COORDS
         /\ view.zoom = DEFAULT_ZOOM

\* a render that shows two markers at different places, reached by a
\* filter change from a render that showed none or others
C7_Witness ==
  /\ Rendered
  /\ Len(markers) = 2
  /\ Cardinality(Lats) = 2
  /\ Cardinality(Lons) = 2
  /\ checked # {}

----------------------------------------------------------------------------
(* C9 *)

----------------------------------------------------------------------------
(* C10 *)

\* C10: every filter mutation (a type change, a burst of edits of one box,
\* a reset) gets exactly one render cycle: the mutations not yet rendered
\* are exactly those with a timeout pending, one each.
C10_OneCyclePerMutation ==
  owed = Len(timers["search"]) + Len(timers["zip"])

\* Reset was clicked while the timeouts of a search edit and of a ZIP edit
\* were both pending
C10_Witness ==
  /\ last.ev = "reset"
  /\ timers["search"] # <<>>
  /\ timers["zip"] # <<>>
  /\ owed = 2

----------------------------------------------------------------------------
(* C8 *)

\* C8 (as claimed): a click on Reset clears the three inputs and renders,
\* and the markers shown are then exactly the mappable rows.
C8_ResetShowsMappable ==
  last.ev = "reset" =>
    /\ checked = {} /\ searchValue = <<>> /\ zipValue = <<>>
    /\ Displayed = { i \in Positions : Mappable(rows[i]) }

----------------------------------------------------------------------------
(* C11 *)

\* C11 (as claimed): once the dataset fetch has failed, the status text is a
\* failure message: neither the loading message nor the empty-map prompt.
C11_LoadFailureVisible ==
  phase = "failed" => (status # LoadingStatus /\ status # PromptStatus)

----------------------------------------------------------------------------
(* C12 *)

NoCycleRan ==
  /\ markers = <<>>
  /\ download = NoDownload
  /\ \A b \in Boxes : timers[b] = <<>> /\ burstRenders[b] = 0
  /\ ~Rendered
  /\ last.ev # "export"

\* C12: until the load has completed successfully no render cycle and no
\* export runs, whatever the user does meanwhile: no marker, no file, no
\* pending timeout; and a failed load stays failed for the rest of the
\* session, so none ever runs after it.
C12_LoadGating ==
  /\ [](phase # "ready" => NoCycleRan)
  /\ [][phase = "failed" => phase' = "failed"]_vars

\* after the load failed the user edited both boxes and clicked a button
C12_Witness ==
  /\ phase = "failed"
  /\ last.ev = "unheard" /\ last.box \in {"reset", "export"}
  /\ searchValue # <<>>
  /\ zipValue # <<>>

----------------------------------------------------------------------------
(* C13 *)

Hidden == popupDisplay = "none" /\ headerDisplay = "none"

\* C13 (as claimed): html2canvas is never in flight twice at the same time,
\* and no capture is in flight while the popup pane or the header has been
\* restored by the completion of an earlier one.
C13_OneCaptureAtATime ==
  /\ captures <= 1
  /\ (captures > 0 /\ last.ev = "shotdone") => Hidden

----------------------------------------------------------------------------
(* C14 *)

\* C14 (as claimed): while a capture is in flight the popup pane and the
\* header are hidden, and once no capture is in flight, whether the last one
\* resolved or rejected, both are visible again.
C14_HideAndRestore ==
  /\ captures > 0 => Hidden
  /\ captures = 0 => (popupDisplay # "none" /\ headerDisplay # "none")

----------------------------------------------------------------------------
(* C15 *)

\* C15 (as claimed): once every copy has ended and every label timeout has
\* run, the copy button shows its original label "Copy Info" again,
\* whatever the clicks were.
C15_LabelReverts ==
  (label # NoButton /\ copying = <<>> /\ feedback = <<>>) => label = "Copy Info"

----------------------------------------------------------------------------
(* C16 *)

\* what the filter/render path reads and writes
RenderState == << loaded, checked, searchValue, zipValue, timers, markers,
                 status, view >>

\* C16: a forecast lookup that fails at any of its steps leaves the weather
\* box on its unavailable message; no step of a lookup changes the markers,
\* the status text, the view, the filters or a pending timeout; and a
\* render cycle that runs while lookups are in flight shows what the
\* filters keep, as it does without them.
C16_WeatherIsolated ==
  /\ [](last.ev = "lookupfailed" => weather = Unavailable)
  /\ [][lookups' # lookups => UNCHANGED RenderState]_vars
  /\ []((Rendered /\ lookups # <<>>) =>
          /\ Displayed = { i \in Kept : ~NumberIsNaN(Number(rows[i].latitude))
                                        /\ ~NumberIsNaN(Number(rows[i].longitude)) }
          /\ status = StatusFor(markers)
          /\ view = ViewFor(markers))

\* a lookup failed and left the box on its message, another is still in
\* flight, and the search timeout has just rendered a marker
C16_Witness ==
  /\ last = Event("timeout", "search")
  /\ weather = Unavailable
  /\ lookups # <<>>
  /\ markers # <<>>

----------------------------------------------------------------------------
(* C17 *)

\* the markers ms, the status st and the view vw are those of a render cycle
\* run over the rows rs with the inputs given
RightFor(ms, st, vw, rs, boxes, search, zip) ==
  /\ { ms[i].row : i \in 1..Len(ms) } =
       { i \in Elements(filterRows(rs, boxes, search, zip)) :
           /\ ~NumberIsNaN(Number(rs[i].latitude))
           /\ ~NumberIsNaN(Number(rs[i].longitude)) }
  /\ st = StatusFor(ms)
  /\ vw = ViewFor(ms)

\* C17: an export that throws changes neither the markers, the status, the
\* view, the filters nor a pending timeout, and the filter mutation handled
\* right after it renders what the filters then keep.
C17_ExportFailureIsolated ==
  /\ [][download' = Thrown => UNCHANGED RenderState]_vars
  /\ [][(download = Thrown /\ last'.ev \in {"change", "timeout", "reset"}) =>
          RightFor(markers', status', view', rows', checked', searchValue',
                   zipValue')]_vars

\* an export has just thrown while markers are on the map and a search
\* timeout is pending
C17_Witness ==
  /\ download = Thrown
  /\ last.ev = "export"
  /\ markers # <<>>
  /\ timers["search"] # <<>>

----------------------------------------------------------------------------
(* C18 *)

\* the array filterRows returns: the kept rows themselves
Filtered(rs, boxes, search, zip) ==
  LET kept == filterRows(rs, boxes, search, zip) IN
    [j \in 1..Len(kept) |-> rs[kept[j]]]

Gates == {"type", "search", "zip"}

\* the rows of rs that pass one gate of the page's filter state alone
Stage(g, rs) ==
  Filtered(rs, IF g = "type" THEN checked ELSE {},
               IF g = "search" THEN searchValue ELSE <<>>,
               IF g = "zip" THEN zipValue ELSE <<>>)

\* C18: for the rows and the filter state of every state of the page,
\* filtering the filtered rows again keeps them all; a row is kept iff it
\* passes the type gate, the search gate, the ZIP gate and the coordinate
\* test, each taken alone; and applying the three gates one after the other,
\* in any of their six orders, gives the rows the combined filter gives.
C18_FilterComposition ==
  LET once == Filtered(rows, checked, searchValue, zipValue) IN
    /\ Filtered(once, checked, searchValue, zipValue) = once
    /\ \A i \in Positions :
         i \in Kept <=>
           /\ ~TypeRejects(rows[i], checked)
           /\ ~SearchRejects(rows[i], QueryOf(searchValue))
           /\ ~ZipRejects(rows[i], ZipListOf(zipValue))
           /\ CoordinatesPresent(rows[i])
    /\ \A a \in Gates : \A b \in Gates \ {a} : \A c \in Gates \ {a, b} :
         Stage(c, Stage(b, Stage(a, rows))) = once

\* the three gates are all set, one row passes them all and another row,
\* with coordinates, is held back
C18_Witness ==
  /\ checked # {}
  /\ QueryOf(searchValue) # <<>>
  /\ ZipListOf(zipValue) # <<>>
  /\ Kept # {}
  /\ \E i \in Positions \ Kept : CoordinatesPresent(rows[i])

----------------------------------------------------------------------------
(* C19 *)

\* q names positions of rows, each at most once, in the order of rows
Ascending(q) ==
  /\ \A j \in 1..Len(q) : q[j] \in Positions
  /\ \A j \in 1..Len(q) : \A k \in 1..Len(q) : j < k => q[j] < q[k]

\* C19: the rows filterRows keeps are a subsequence of the loaded rows, in
\* their order and without repetition; the markers on the map are in that
\* order; and the features of an exported file are rows of the dataset in
\* that order.
C19_StableOrder ==
  /\ Ascending(filterRows(rows, checked, searchValue, zipValue))
  /\ Ascending([j \in 1..Len(markers) |-> markers[j].row])
  /\ download.k = "file" =>
       \E q \in [1..Len(download.features) -> Positions] :
         /\ Ascending(q)
         /\ \A j \in 1..Len(q) : download.features[j].properties = rows[q[j]]

\* an export of two features from a map that shows two markers
C19_Witness ==
  /\ download.k = "file"
  /\ Len(download.features) = 2
  /\ Len(markers) = 2
  /\ download.features[1].properties # download.features[2].properties

----------------------------------------------------------------------------
(* C20 *)

\* the distinct non-empty Type values of the loaded rows
DiscoveredTypes ==
  { t \in { rows[i].Type.s : i \in Positions } :
      \E i \in Positions : /\ rows[i].Type.k = "string"
                           /\ rows[i].Type.s = t
                           /\ t # <<>> }

EveryRowTyped == \A i \in Positions : rows[i].Type.k = "string" /\ rows[i].Type.s # <<>>

----------------------------------------------------------------------------
(* C21 *)

\* the copy handled last has ended without the text being copied
CopyFailed ==
  /\ last.ev \in {"copy", "copied"}
  /\ last.outcome \in {"rejected", "false", "throws"}

\* C21 (as claimed): when the direct clipboard write fails the handler goes
\* on to the textarea-selection copy, and a copy that failed for good leaves
\* the button on a failure text with a timeout pending to take it away.
C21_ClipboardFallback ==
  /\ (last.ev = "copied" /\ last.outcome = "rejected") => "textarea" \in last.used
  /\ CopyFailed => (label = FailedText(rev) /\ feedback # <<>>)

----------------------------------------------------------------------------
(* C22 *)

\* the markers a render cycle creates from the rows and inputs given
Created(rs, boxes, search, zip) ==
  MarkersFrom(rev, rs, filterRows(rs, boxes, search, zip))

\* C22: the marker layer never holds two markers of one row, and every
\* render cycle leaves in it exactly the markers that cycle created, one per
\* row it rendered and in the order of the rows: nothing of an earlier
\* render survives it.
C22_NoMarkerAccumulation ==
  /\ [](\A i \in 1..Len(markers) : \A j \in 1..Len(markers) :
          markers[i].row = markers[j].row => i = j)
  /\ [][last'.ev \in {"change", "timeout", "reset"} =>
          markers' = Created(rows', checked', searchValue', zipValue')]_vars

\* both type boxes were checked one after the other, and the render of the
\* second change left one marker for each of the two rows
C22_Witness ==
  /\ last.ev = "change"
  /\ Cardinality(checked) = 2
  /\ Len(markers) = 2
  /\ timers = [b \in Boxes |-> <<>>]

----------------------------------------------------------------------------
(* C23 *)

\* how many of the discovered types sort before t
Rank(t) == Cardinality({ u \in TypesOf(rows) : Before(u, t) })

\* the palette color of a type: palette[index mod palette length]
PaletteColor(t) == colors[(Rank(t) % Len(colors)) + 1]

\* C23 (as claimed): once the page is built, the entry of every discovered
\* type in the type filter has the palette color of the type's rank among
\* the sorted types, taken modulo the length of the palette, and so has the
\* table typeColors, in every revision and for any number of types.
C23_TypeColors ==
  phase = "ready" =>
    /\ DOMAIN entryColor = TypesOf(rows)
    /\ DOMAIN typeColors = TypesOf(rows)
    /\ \A t \in TypesOf(rows) :
         /\ typeColors[t] = PaletteColor(t)
         /\ entryColor[t] = typeColors[t]

----------------------------------------------------------------------------
(* C24 *)

\* the registered types and their icons; revision 3 alone registers any
Registry ==
  IF rev # 3 THEN {}
  ELSE { <<BlessingBoxes, "./Completed markers/blessing_box.png">>,
         <<CommunityMeals, "./Completed markers/community_meals.png">>,
         <<FoodPantries, "./Completed markers/food_pantries.png">>,
         <<FoodPantriesSchool, "./Completed markers/food_pantryschool.png">>,
         <<MobileFoodPantries, "./Completed markers/mobile_foodpantry.png">>,
         <<SeniorCenters, "./Completed markers/senior_center.png">>,
         <<Shelters, "./Completed markers/shelter.png">> }

Registered(row) == row.Type.k = "string" /\ \E e \in Registry : e[1] = row.Type.s

\* C24: every marker on the map has an icon: the one registered for the
\* Type of its row when that Type is registered, the default icon when it is
\* not or the row has no Type; markers of rows of different registered
\* types have different icons.
C24_IconLookup ==
  /\ \A i \in 1..Len(markers) :
       LET row == rows[markers[i].row] IN
         IF Registered(row) THEN <<row.Type.s, markers[i].icon>> \in Registry
         ELSE markers[i].icon = ICON_URL
  /\ \A i \in 1..Len(markers) : \A j \in 1..Len(markers) :
       LET a == rows[markers[i].row]
           b == rows[markers[j].row]
       IN (Registered(a) /\ Registered(b) /\ a.Type.s # b.Type.s)
            => markers[i].icon # markers[j].icon

\* revision 3 shows together markers of two registered types, of a type
\* that is not registered and of a row without Type
C24_Witness ==
  /\ rev = 3
  /\ \E i \in 1..Len(markers) : \E j \in 1..Len(markers) :
       /\ Registered(rows[markers[i].row]) /\ Registered(rows[markers[j].row])
       /\ rows[markers[i].row].Type.s # rows[markers[j].row].Type.s
  /\ \E i \in 1..Len(markers) :
       rows[markers[i].row].Type.k = "string" /\ ~Registered(rows[markers[i].row])
  /\ \E i \in 1..Len(markers) : rows[markers[i].row].Type.k = "undefined"

----------------------------------------------------------------------------
(* C25 *)

\* C25: once the rows are loaded no handler adds, removes, reorders or
\* changes a row, so every filter cycle reads the rows the load produced;
\* and the properties of every feature of an exported file are equal to a
\* loaded row, which the export left as it was.
C25_RowsImmutable ==
  /\ [][phase = "ready" => loaded' = loaded]_vars
  /\ [](download.k = "file" =>
          \A i \in 1..Len(download.features) :
            \E j \in Positions : download.features[i].properties = rows[j])

\* a file was exported from a page that had rendered markers, after a
\* search was typed and its timeout ran
C25_Witness ==
  /\ download.k = "file"
  /\ download.features # <<>>
  /\ markers # <<>>
  /\ searchValue # <<>>
  /\ checked # {}
  /\ timers = [b \in Boxes |-> <<>>]

----------------------------------------------------------------------------
(* C26 *)

Quiescent == \A b \in Boxes : timers[b] = <<>>

\* the rows that pass the type, search and ZIP gates for the values the
\* inputs hold now
PassingNow ==
  { i \in Positions : /\ ~TypeRejects(rows[i], checked)
                      /\ ~SearchRejects(rows[i], QueryOf(searchValue))
                      /\ ~ZipRejects(rows[i], ZipListOf(zipValue)) }

\* C26 (as claimed): right after a render cycle that leaves no debounced
\* render pending, the rows with a marker are exactly the rows that pass the
\* filter for the values the inputs hold and whose coordinates parse.
C26_QuiescentConsistency ==
  (Rendered /\ Quiescent) =>
    Displayed = { i \in PassingNow : Mappable(rows[i]) }

----------------------------------------------------------------------------
(* C27 *)

\* no user event has been handled since the load
Untouched == phase = "ready" /\ last.ev = "load"

\* C27 (as claimed): from the load to the first user event no render cycle
\* has run: no marker, the default view and the prompt status, although the
\* filter state is empty; and a click on Reset, which leaves the same empty
\* filter state, displays every mappable row.
C27_StartupState ==
  /\ (Untouched /\ EmptyFilterState) =>
       /\ markers = <<>>
       /\ view = DefaultView
       /\ status = PromptStatus
  /\ last.ev = "reset" =>
       /\ EmptyFilterState
       /\ Displayed = { i \in Positions : Mappable(rows[i]) }

----------------------------------------------------------------------------
(* C28 *)

\* the rows of the features of the file just offered for download
Exported == { download.features[i].properties : i \in 1..Len(download.features) }

\* C28 (as claimed): whenever an export has produced a file, the rows in it
\* are exactly the rows that have a marker on the map at that moment, be it
\* before the first render or while a debounced render is pending.
C28_ExportMatchesDisplay ==
  (last.ev = "export" /\ download.k = "file") =>
    Exported = { rows[i] : i \in Displayed }

----------------------------------------------------------------------------
(* C29 *)

\* the markers, the status and the view are those of a render of the
\* values the inputs hold now
RenderedRight == RightFor(markers, status, view, rows, checked, searchValue, zipValue)

\* C29: a pending debounced render fires unless a later input on its own
\* box replaces it; until then its time left only goes down, whatever else
\* the user does; once no render is pending after a timeout, the markers
\* and the status are those of the final filter state; and a timeout that
\* fires after Reset, with the inputs still clear, leaves the markers, the
\* status and the view of Reset's own render.
C29_EventualRender ==
  /\ \A b \in Boxes :
       (timers[b] # <<>>) ~>
         (last = Event("timeout", b) \/ (last.ev = "input" /\ last.box = b))
  /\ [][\A b \in Boxes :
          (timers[b] # <<>> /\ ~(last'.ev = "input" /\ last'.box = b)) =>
            \/ timers'[b] = <<>> /\ last' = Event("timeout", b)
            \/ timers'[b] # <<>> /\ Head(timers'[b]) <= Head(timers[b])]_vars
  /\ []((last.ev = "timeout" /\ Quiescent) => RenderedRight)
  /\ [][(last.ev = "reset" /\ last'.ev = "timeout") =>
          UNCHANGED << markers, status, view >>]_vars

\* a timeout has fired with the three inputs clear and a marker on the map,
\* as after a Reset clicked while the timeout was pending
C29_Witness ==
  /\ last.ev = "timeout"
  /\ checked = {} /\ searchValue = <<>> /\ zipValue = <<>>
  /\ markers # <<>>
  /\ Quiescent

----------------------------------------------------------------------------
(* C30 *)

\* C30 (as claimed): once every lookup in flight has ended, the weather
\* box shows what the lookup of the most recent click wrote, in whatever
\* order the lookups ended.
C30_LastClickWins ==
  (last.ev \in {"forecast", "lookupfailed"} /\ lookups = <<>>) =>
    weather = last.newest

====
